---- MODULE Spec2Model ----
(***************************************************************************)
(* State-machine model of the chat servers of this repository:             *)
(*   - the multi-room server        src/backend/server.js                  *)
(*   - the password-room server     src/server.js (second program, from    *)
(*                                  line 147 on)                           *)
(* A JavaScript string is a sequence of one-character strings, so that     *)
(* String.prototype.trim and the truthiness of "" are computed, not        *)
(* assumed.  Event names and fixed error texts are plain TLA+ strings.     *)
(***************************************************************************)
EXTENDS Integers, Sequences, FiniteSets, TLC

(***************************************************************************)
(* Bounds of the model.                                                    *)
(***************************************************************************)
MaxSends == 2         \* messages accepted in a run of Spec
MaxClock == 2         \* last value of the wall clock in SpecBurst
MaxBurst == 2         \* messages accepted in a run of SpecBurst
MaxDeepSends == 1503  \* messages accepted in a run of SpecEvict
MaxPwSends == 1       \* messages accepted in a run of SpecPw
MaxPwDeepSends == 1001 \* messages accepted in a run of SpecPwDeep

Conns == {"c1", "c2"}
NameInputs == {<<>>, <<"n", " ">>}
MainName == <<"n", " ">>
RoomInputs == {<<>>, <<"a">>, <<" ", "b">>, <<"b">>}
TextInputs == {<<>>, <<" ">>, <<"h", " ">>}
RndDraws == {0, 1}
DeepConn == "c1"
DeepRoom == <<"a">>
Undefined == <<"undefined">>   \* a field the client left out
PwRoomInputs == {"general", "vip"}
PwPasswordInputs == {Undefined, <<"p">>, <<" ", "q">>}
PwNameInputs == {"ann"}
PwTextInputs == {<<"h">>}
MaxPersistSends == 1  \* messages in memory at once in SpecPersist
MaxBuffer == 1        \* events of the Chat client waiting to be handled
MaxChatSends == 1     \* messages accepted in a run of SpecTyping, SpecReconnect
MaxErrors == 7        \* connect_error events in a row in SpecRetry
MaxTimers == 2        \* reconnect timers pending at once in SpecRetry
ChatInputs == {<<"h">>, <<" ">>}
PeerConn == "c2"
CreatePasswords == {Undefined, <<>>, <<" ">>, <<"p">>, <<" ", "q">>}
MaxSimpleSends == 1   \* messages accepted in a run of SpecSimple
MaxAppSends == 2      \* messages accepted in a run of SpecApp
MaxAppBuffer == 1     \* events of the App client waiting to be handled
MaxHistorySends == 102 \* messages accepted in a run of SpecHistory
AppRoomInputs == {<<"a">>, <<"b">>}
AppConn == "c1"
SimpleRoomInputs == {<<"a">>, <<"b">>}
SimpleNameInputs == {<<"n">>}
RegisterInputs == {Undefined, <<>>, <<" ">>, <<"n", " ">>, <<" ", "n">>}

(***************************************************************************)
(* Program constants of src/backend/server.js.                             *)
(***************************************************************************)
HardCap == 1000
SoftCap == 500
HistoryLimit == 100

(***************************************************************************)
(* Program constants of src/server.js.                                     *)
(***************************************************************************)
SimpleHistoryLimit == 50
PwHistoryLimit == 50
SaveLimit == 100

VARIABLES
    now,        \* the wall clock read by Date.now()
    conn,       \* backend: life cycle of each socket id
    users,      \* backend: const users = new Map()
    rooms,      \* backend: const rooms = new Map()
    sockRooms,  \* backend: the socket.io rooms each socket has join()ed
    accepted,   \* history: per room, every message ever pushed to its log
    pwConn,     \* password server: life cycle of each socket id
    pwUsers,    \* password server: const users = {}
    pwRooms,    \* password server: const rooms = {...}
    pwSock,     \* password server: the socket.io rooms of each socket
    pwPending,  \* password server: per socket, its handler suspended at an await
    out,        \* the events emitted by the handler step that ran last
    last,       \* the request the handler step that ran last was given
    socketRef,        \* Chat client: the socket of socketRef.current
    connected,        \* Chat client: useState(false)
    connectionStatus, \* Chat client: useState('disconnected')
    retryCount,       \* Chat client: useState(0)
    currentRoom,      \* Chat client: useState(null)
    isTyping,         \* Chat client: useState(false)
    input,            \* Chat client: useState('')
    typingTimeoutRef, \* Chat client: the timer set by handleTyping
    reconnectTimers,  \* Chat client: the timers set by connect_error handlers
    sendBuffer,       \* Chat client: events emitted and not yet handled
    receiveBuffer,    \* Chat client: events sent to it and not yet handled
    errorsInARow,     \* history: connect_error events since the last connect
    typingSent,       \* history: the isTyping flag the client emitted last
    messagesFile,     \* password server: the document data/messages.json
    roomsFile,        \* password server: the document data/rooms.json
    saving,           \* password server: saveData is between its two writes
    savedWhole,       \* history: both documents come from one finished saveData
    simpleConn,       \* simple server: life cycle of each socket id
    simpleUsers,      \* simple server: const users = new Map()
    simpleRooms,      \* simple server: const rooms = new Map()
    simpleSock,       \* simple server: the socket.io rooms of each socket
    appConnected,     \* App client: useState(false), isConnected
    appCurrentRoom,   \* App client: useState(''), currentRoom
    appMessages,      \* App client: useState([]), messages
    appRooms,         \* App client: the names of useState([]), rooms
    appOut,           \* App client: events emitted and not yet handled
    appIn,            \* App client: events sent to it and not yet handled
    appSent,          \* history: the send_message events the client emitted
    observed          \* history: what socket PeerConn was sent for DeepRoom

backendVars == <<conn, users, rooms, sockRooms, accepted>>
pwVars == <<pwConn, pwUsers, pwRooms, pwSock, pwPending>>
chatVars == <<socketRef, connected, connectionStatus, retryCount, currentRoom,
              isTyping, input, typingTimeoutRef, reconnectTimers, sendBuffer,
              receiveBuffer, errorsInARow, typingSent>>
diskVars == <<messagesFile, roomsFile, saving, savedWhole>>
simpleVars == <<simpleConn, simpleUsers, simpleRooms, simpleSock>>
appVars == <<appConnected, appCurrentRoom, appMessages, appRooms, appOut,
             appIn, appSent>>
otherVars == <<simpleVars, appVars, observed>>
vars == <<now, backendVars, pwVars, out, last, chatVars, diskVars, otherVars>>

(***************************************************************************)
(* JavaScript helpers.                                                     *)
(***************************************************************************)
RECURSIVE TrimStart(_)
TrimStart(s) ==
    IF s # <<>> /\ Head(s) = " " THEN TrimStart(Tail(s)) ELSE s

RECURSIVE TrimEnd(_)
TrimEnd(s) ==
    IF s # <<>> /\ s[Len(s)] = " " THEN TrimEnd(SubSeq(s, 1, Len(s) - 1)) ELSE s

\* String.prototype.trim
Trim(s) == TrimEnd(TrimStart(s))

\* the first n entries of the array in place of the last ones
SliceFirst(s, n) == IF Len(s) <= n THEN s ELSE SubSeq(s, 1, n)

\* Array.prototype.slice(-n)
SliceLast(s, n) ==
    IF Len(s) <= n THEN s ELSE SubSeq(s, Len(s) - n + 1, Len(s))

\* Map.prototype.set / delete, for maps kept as functions
MapSet(m, k, v) == [x \in (DOMAIN m) \cup {k} |-> IF x = k THEN v ELSE m[x]]
MapDelete(m, k) == [x \in (DOMAIN m) \ {k} |-> m[x]]

\* Set.prototype.add / delete on a Set whose iteration order is observed
SetAdd(s, e) == IF \E i \in 1..Len(s) : s[i] = e THEN s ELSE Append(s, e)
SetDelete(s, e) == SelectSeq(s, LAMBDA x : x # e)

Digits == <<"0", "1", "2", "3", "4", "5", "6", "7", "8", "9">>

RECURSIVE DecStr(_)
DecStr(n) ==
    IF n < 10 THEN <<Digits[n + 1]>>
    ELSE Append(DecStr(n \div 10), Digits[(n % 10) + 1])

(***************************************************************************)
(* src/backend/server.js                                                   *)
(* The fields connectedAt, lastActivity and createdAt are written and      *)
(* never read by any handler; they are left out of the records.            *)
(***************************************************************************)
\* `User_${socketId.slice(0, 6)}`
GenName(c) == <<"U", "s", "e", "r", "_", c>>

\* (username || `User_${socketId.slice(0, 6)}`).trim()
SafeUsername(c, username) ==
    Trim(IF username # Undefined /\ username # <<>> THEN username
         ELSE GenName(c))

\* the sockets a broadcast to a socket.io room reaches
RoomSockets(sr, room) == {d \in Conns : room \in sr[d]}

\* Array.from(rooms.values()).map(...)
RoomList ==
    [r \in DOMAIN rooms |->
        [name |-> rooms[r].name,
         userCount |-> Cardinality(rooms[r].users),
         messageCount |-> Len(rooms[r].messages)]]

\* the trim taken as soon as the log is longer than the soft cap
StoreMessageSoftTrim(messages, messageData) ==
    LET pushed == Append(messages, messageData)
    IN  IF Len(pushed) > SoftCap THEN SliceLast(pushed, SoftCap) ELSE pushed

\* roomData.messages.push(messageData); if (length > 1000) slice(-500)
StoreMessage(messages, messageData) ==
    LET pushed == Append(messages, messageData)
    IN  IF Len(pushed) > HardCap THEN SliceLast(pushed, SoftCap) ELSE pushed

\* the checks with the room looked up before the user
SendPreconditionRoomFirst(c, room) ==
    IF room \notin DOMAIN rooms THEN "Room does not exist"
    ELSE IF c \notin DOMAIN users THEN "Please register first"
    ELSE IF c \notin rooms[room].users THEN "You are not in this room"
    ELSE "ok"

\* the precondition checks of send_message, in the order of the code:
\* the text of the error it emits, or "ok"
SendPrecondition(c, room) ==
    IF c \notin DOMAIN users THEN "Please register first"
    ELSE IF room \notin DOMAIN rooms THEN "Room does not exist"
    ELSE IF c \notin rooms[room].users THEN "You are not in this room"
    ELSE "ok"

TotalAccepted ==
    LET RECURSIVE Sum(_)
        Sum(S) == IF S = {} THEN 0
                  ELSE LET r == CHOOSE x \in S : TRUE
                       IN  Len(accepted[r]) + Sum(S \ {r})
    IN  Sum(DOMAIN accepted)

(***************************************************************************)
(* src/server.js, the password-room server: data                           *)
(***************************************************************************)
Null == [null |-> TRUE]

\* bcrypt.hash(s, 10): a salted one-way hash; the model keeps the string it
\* was made from, which bcrypt.compare alone uses
BcryptHash(s) == [bcrypt |-> s]

\* await bcrypt.compare(password, room.password): resolves true or false,
\* rejects when password is not a string
BcryptCompare(password, hash) ==
    IF password = Undefined THEN "throw"
    ELSE IF hash.bcrypt = password THEN "match"
    ELSE "mismatch"

\* const rooms = { general, random, tech }
DefaultRooms ==
    [id \in {"general", "random", "tech"} |->
        [name |-> CASE id = "general" -> "General Chat"
                    [] id = "random" -> "Random Talk"
                    [] id = "tech" -> "Tech Talk",
         password |-> Null, creator |-> "system",
         users |-> <<>>, messages |-> <<>>]]

Idle == [kind |-> "idle"]

\* nothing is recorded about socket PeerConn
NotObserved == [joined |-> FALSE, joinedAt |-> 0, snapshot |-> <<>>,
                live |-> <<>>]

\* the Chat client once mounted: useEffect has called initializeSocket()
\* from the first render, where retryCount is 0 and connected is false
ChatInit ==
    /\ socketRef = [state |-> "opening", id |-> "none", retryCount |-> 0]
    /\ connected = FALSE
    /\ connectionStatus = "connecting"
    /\ retryCount = 0
    /\ currentRoom = "null"
    /\ isTyping = FALSE
    /\ input = <<>>
    /\ typingTimeoutRef = [set |-> FALSE]
    /\ reconnectTimers = <<>>
    /\ sendBuffer = <<>>
    /\ receiveBuffer = <<>>
    /\ errorsInARow = 0
    /\ typingSent = "none"

Init ==
    /\ now = 0
    /\ pwConn = [c \in Conns |-> "new"]
    /\ pwUsers = <<>>
    /\ pwRooms = DefaultRooms
    /\ pwSock = [c \in Conns |-> {}]
    /\ pwPending = [c \in Conns |-> Idle]
    /\ conn = [c \in Conns |-> "new"]
    /\ users = <<>>
    /\ rooms = <<>>
    /\ sockRooms = [c \in Conns |-> {}]
    /\ accepted = <<>>
    /\ out = <<>>
    /\ last = [op |-> "boot"]
    /\ ChatInit
    /\ messagesFile = <<>>
    /\ roomsFile = <<>>
    /\ saving = FALSE
    /\ savedWhole = TRUE
    /\ simpleConn = [c \in Conns |-> "new"]
    /\ simpleUsers = <<>>
    /\ simpleRooms = <<>>
    /\ simpleSock = [c \in Conns |-> {}]
    /\ appConnected = FALSE
    /\ appCurrentRoom = <<>>
    /\ appMessages = <<>>
    /\ appRooms = {}
    /\ appOut = <<>>
    /\ appIn = <<>>
    /\ appSent = 0
    /\ observed = NotObserved

\* the wall clock advances
Tick ==
    /\ now < MaxClock
    /\ now' = now + 1
    /\ UNCHANGED <<backendVars, pwVars, out, last, chatVars, diskVars, otherVars>>

\* io.on('connection', ...)
Connect(c) ==
    /\ conn[c] = "new"
    /\ conn' = [conn EXCEPT ![c] = "open"]
    /\ out' = <<[ev |-> "connected", to |-> {c}, socketId |-> c]>>
    /\ last' = [op |-> "connection", conn |-> c]
    /\ UNCHANGED <<now, users, rooms, sockRooms, accepted, pwVars>>

\* socket.on('register_user', ...)
RegisterUser(c, username) ==
    /\ conn[c] = "open"
    /\ LET safeUsername == SafeUsername(c, username)
       IN  /\ users' = MapSet(users, c,
                   [username |-> safeUsername, rooms |-> <<>>])
           /\ out' = <<[ev |-> "user_registered", to |-> {c},
                        userId |-> c, username |-> safeUsername],
                       [ev |-> "rooms_list", to |-> {c}, list |-> RoomList]>>
    /\ last' = [op |-> "register_user", conn |-> c, username |-> username]
    /\ UNCHANGED <<now, conn, rooms, sockRooms, accepted, pwVars>>

\* socket.on('join_room', ...)
JoinRoom(c, roomName) ==
    /\ conn[c] = "open"
    /\ last' = [op |-> "join_room", conn |-> c, room |-> roomName]
    /\ IF roomName = <<>> \/ Trim(roomName) = <<>>
       THEN /\ out' = <<[ev |-> "error", to |-> {c},
                         message |-> "Valid room name is required"]>>
            /\ UNCHANGED <<users, rooms, sockRooms, accepted>>
       ELSE IF c \notin DOMAIN users
       THEN /\ out' = <<[ev |-> "error", to |-> {c},
                         message |-> "Please register first"]>>
            /\ UNCHANGED <<users, rooms, sockRooms, accepted>>
       ELSE LET room == Trim(roomName)
                created == IF room \in DOMAIN rooms THEN rooms[room]
                           ELSE [name |-> room, users |-> {}, messages |-> <<>>]
                roomData == [created EXCEPT !.users = @ \cup {c}]
                joinedRooms == [sockRooms EXCEPT ![c] = @ \cup {room}]
            IN  /\ rooms' = MapSet(rooms, room, roomData)
                /\ accepted' = IF room \in DOMAIN accepted THEN accepted
                               ELSE MapSet(accepted, room, <<>>)
                /\ users' = [users EXCEPT ![c].rooms = SetAdd(@, room)]
                /\ sockRooms' = joinedRooms
                /\ out' = <<[ev |-> "room_history", to |-> {c}, room |-> room,
                             messages |-> SliceLast(roomData.messages, HistoryLimit),
                             userCount |-> Cardinality(roomData.users)],
                            [ev |-> "user_joined",
                             to |-> RoomSockets(joinedRooms, room) \ {c},
                             room |-> room, user |-> users[c].username,
                             userId |-> c,
                             userCount |-> Cardinality(roomData.users)]>>
    /\ UNCHANGED <<now, conn, pwVars>>

\* socket.on('send_message', ...); rnd is the draw of Math.random()
SendMessage(c, room, message, rnd) ==
    /\ conn[c] = "open"
    /\ last' = [op |-> "send_message", conn |-> c, room |-> room,
                message |-> message]
    /\ IF room = <<>> \/ message = <<>>
       THEN /\ out' = <<[ev |-> "error", to |-> {c},
                         message |-> "Room and valid message are required"]>>
            /\ UNCHANGED <<users, rooms, accepted>>
       ELSE IF SendPrecondition(c, room) # "ok"
       THEN /\ out' = <<[ev |-> "error", to |-> {c},
                         message |-> SendPrecondition(c, room)]>>
            /\ UNCHANGED <<users, rooms, accepted>>
       ELSE IF Len(Trim(message)) = 0
       THEN /\ out' = <<>>
            /\ UNCHANGED <<users, rooms, accepted>>
       ELSE LET messageData ==
                    [id |-> [ms |-> now, rnd |-> rnd],
                     user |-> users[c].username,
                     userId |-> c,
                     message |-> Trim(message),
                     room |-> room,
                     timestamp |-> now]
            IN  /\ rooms' = [rooms EXCEPT ![room].messages =
                                 StoreMessage(@, messageData)]
                /\ accepted' = [accepted EXCEPT ![room] = Append(@, messageData)]
                /\ UNCHANGED users
                /\ out' = <<[ev |-> "receive_message",
                             to |-> RoomSockets(sockRooms, room),
                             msg |-> messageData]>>
    /\ UNCHANGED <<now, conn, sockRooms, pwVars>>

\* socket.on('get_rooms', ...)
GetRooms(c) ==
    /\ conn[c] = "open"
    /\ out' = <<[ev |-> "rooms_list", to |-> {c}, list |-> RoomList]>>
    /\ last' = [op |-> "get_rooms", conn |-> c]
    /\ UNCHANGED <<now, conn, users, rooms, sockRooms, accepted, pwVars>>

\* socket.on('leave_room', ...)
LeaveRoom(c, roomName) ==
    /\ conn[c] = "open"
    /\ last' = [op |-> "leave_room", conn |-> c, room |-> roomName]
    /\ IF roomName \in DOMAIN rooms /\ c \in DOMAIN users
       THEN LET left == [sockRooms EXCEPT ![c] = @ \ {roomName}]
                remaining == rooms[roomName].users \ {c}
            IN  /\ rooms' = [rooms EXCEPT ![roomName].users = remaining]
                /\ users' = [users EXCEPT ![c].rooms = SetDelete(@, roomName)]
                /\ sockRooms' = left
                /\ out' = <<[ev |-> "user_left",
                             to |-> RoomSockets(left, roomName) \ {c},
                             room |-> roomName, user |-> users[c].username,
                             userId |-> c,
                             userCount |-> Cardinality(remaining)]>>
       ELSE /\ out' = <<>>
            /\ UNCHANGED <<users, rooms, sockRooms>>
    /\ UNCHANGED <<now, conn, accepted, pwVars>>

\* user.rooms.forEach(roomName => { room.users.delete; socket.to(..).emit })
RECURSIVE LeaveAll(_, _, _, _, _)
LeaveAll(c, user, names, rs, sr) ==
    IF names = <<>> THEN [rooms |-> rs, out |-> <<>>]
    ELSE LET roomName == Head(names)
         IN  IF roomName \in DOMAIN rs
             THEN LET remaining == rs[roomName].users \ {c}
                      rs2 == [rs EXCEPT ![roomName].users = remaining]
                      rest == LeaveAll(c, user, Tail(names), rs2, sr)
                  IN  [rooms |-> rest.rooms,
                       out |-> <<[ev |-> "user_left",
                                  to |-> RoomSockets(sr, roomName) \ {c},
                                  room |-> roomName, user |-> user.username,
                                  userId |-> c, reason |-> "disconnected",
                                  userCount |-> Cardinality(remaining)]>>
                               \o rest.out]
             ELSE LeaveAll(c, user, Tail(names), rs, sr)

\* socket.on('disconnect', ...); socket.io has already taken the socket out
\* of every socket.io room when the handler runs
Disconnect(c) ==
    /\ conn[c] = "open"
    /\ conn' = [conn EXCEPT ![c] = "closed"]
    /\ last' = [op |-> "disconnect", conn |-> c]
    /\ LET left == [sockRooms EXCEPT ![c] = {}]
       IN  /\ sockRooms' = left
           /\ IF c \in DOMAIN users
              THEN LET done == LeaveAll(c, users[c], users[c].rooms, rooms, left)
                   IN  /\ rooms' = done.rooms
                       /\ out' = done.out
              ELSE /\ out' = <<>>
                   /\ UNCHANGED rooms
    /\ users' = MapDelete(users, c)
    /\ UNCHANGED <<now, accepted, pwVars>>

(***************************************************************************)
(* src/server.js, the password-room server: handlers.  join_room and       *)
(* create_room are async functions: a call that reaches an await is        *)
(* suspended there (pwPending) and resumed by a later step, after any      *)
(* number of other handler steps.  A socket sends no second join_room or   *)
(* create_room while a handler of its own is suspended; every other event  *)
(* of that socket and every event of the other sockets may come first.     *)
(***************************************************************************)
Range(s) == {s[i] : i \in 1..Len(s)}

\* const index = arr.indexOf(e); if (index > -1) arr.splice(index, 1)
RECURSIVE RemoveFirst(_, _)
RemoveFirst(arr, e) ==
    IF arr = <<>> THEN <<>>
    ELSE IF Head(arr) = e THEN Tail(arr)
    ELSE <<Head(arr)>> \o RemoveFirst(Tail(arr), e)

\* the connected sockets among S: an emit to a closed socket reaches nobody
Connected(S) == {d \in S : pwConn[d] = "open"}

\* the sockets a broadcast to a socket.io room reaches
PwRoomSockets(sk, roomId) == Connected({d \in Conns : roomId \in sk[d]})

PwTotalMessages ==
    LET RECURSIVE Sum(_)
        Sum(S) == IF S = {} THEN 0
                  ELSE LET r == CHOOSE x \in S : TRUE
                       IN  Len(pwRooms[r].messages) + Sum(S \ {r})
    IN  Sum(DOMAIN pwRooms)

\* Object.entries(rooms).map(...)
PwRoomList ==
    [id \in DOMAIN pwRooms |->
        [name |-> pwRooms[id].name,
         userCount |-> Len(pwRooms[id].users),
         hasPassword |-> pwRooms[id].password # Null,
         creator |-> pwRooms[id].creator]]

\* io.on('connection', ...)
PwConnect(c) ==
    /\ pwConn[c] = "new"
    /\ pwConn' = [pwConn EXCEPT ![c] = "open"]
    /\ out' = <<[ev |-> "room_list", to |-> {c}, list |-> PwRoomList]>>
    /\ last' = [op |-> "connection", conn |-> c]
    /\ UNCHANGED <<now, backendVars, pwUsers, pwRooms, pwSock, pwPending>>

\* join_room from "Leave previous room" to its end (lines 302-345)
PwJoinFinish(c, roomId, username) ==
    LET hasOld == c \in DOMAIN pwUsers
        oldRoom == pwUsers[c].currentRoom
        inOld == hasOld /\ c \in Range(pwRooms[oldRoom].users)
        rooms1 == IF inOld
                  THEN [pwRooms EXCEPT ![oldRoom].users = RemoveFirst(@, c)]
                  ELSE pwRooms
        sock1 == IF inOld THEN [pwSock EXCEPT ![c] = @ \ {oldRoom}] ELSE pwSock
        leftOut == IF inOld
                   THEN <<[ev |-> "user_left", to |-> PwRoomSockets(sock1, oldRoom),
                           username |-> pwUsers[c].username, roomId |-> oldRoom],
                          [ev |-> "room_update", to |-> PwRoomSockets(sock1, oldRoom),
                           roomId |-> oldRoom,
                           userCount |-> Len(rooms1[oldRoom].users)]>>
                   ELSE <<>>
        sock2 == [sock1 EXCEPT ![c] = @ \cup {roomId}]
        rooms2 == [rooms1 EXCEPT ![roomId].users = Append(@, c)]
    IN  /\ pwSock' = sock2
        /\ pwUsers' = MapSet(pwUsers, c,
                           [username |-> username, currentRoom |-> roomId])
        /\ pwRooms' = rooms2
        /\ out' = leftOut \o
                   <<[ev |-> "room_joined", to |-> Connected({c}),
                      roomId |-> roomId, roomName |-> rooms2[roomId].name,
                      previousMessages |->
                          SliceLast(rooms2[roomId].messages, PwHistoryLimit)],
                     [ev |-> "user_joined",
                      to |-> PwRoomSockets(sock2, roomId) \ {c},
                      username |-> username, roomId |-> roomId],
                     [ev |-> "room_update", to |-> Connected(Conns),
                      roomId |-> roomId,
                      userCount |-> Len(rooms2[roomId].users),
                      hasPassword |-> rooms2[roomId].password # Null]>>

\* socket.on('join_room', async ...) up to the await or, for a room
\* without password, to its end
PwJoinRoom(c, roomId, username, password) ==
    /\ pwConn[c] = "open"
    /\ pwPending[c] = Idle
    /\ IF roomId \notin DOMAIN pwRooms
       THEN /\ out' = <<[ev |-> "join_error", to |-> {c},
                         message |-> "Room does not exist"]>>
            /\ last' = [op |-> "join_room", phase |-> "sync", conn |-> c,
                        roomId |-> roomId, password |-> password]
            /\ UNCHANGED <<pwUsers, pwRooms, pwSock, pwPending>>
       ELSE IF pwRooms[roomId].password # Null
       THEN /\ pwPending' = [pwPending EXCEPT ![c] =
                   [kind |-> "join", roomId |-> roomId,
                    username |-> username, password |-> password,
                    result |-> BcryptCompare(password, pwRooms[roomId].password)]]
            /\ out' = <<>>
            /\ last' = [op |-> "join_room", phase |-> "await", conn |-> c,
                        roomId |-> roomId, password |-> password]
            /\ UNCHANGED <<pwUsers, pwRooms, pwSock>>
       ELSE /\ PwJoinFinish(c, roomId, username)
            /\ last' = [op |-> "join_room", phase |-> "sync", conn |-> c,
                        roomId |-> roomId, password |-> password]
            /\ UNCHANGED pwPending
    /\ UNCHANGED <<now, backendVars, pwConn>>

\* the password check that lets every resolved comparison pass
PasswordMatchAlways(result) == TRUE

\* const passwordMatch = await bcrypt.compare(...); if (!passwordMatch) ...
PasswordMatch(result) == result = "match"

\* join_room resumed after await bcrypt.compare(...)
PwJoinResume(c) ==
    /\ pwPending[c].kind = "join"
    /\ LET p == pwPending[c]
       IN  /\ last' = [op |-> "join_room", phase |-> "resume", conn |-> c,
                        roomId |-> p.roomId, password |-> p.password]
           /\ IF p.result = "throw"
              THEN /\ out' = <<[ev |-> "join_error", to |-> Connected({c}),
                                message |-> "Server error"]>>
                   /\ UNCHANGED <<pwUsers, pwRooms, pwSock>>
              ELSE IF ~PasswordMatch(p.result)
              THEN /\ out' = <<[ev |-> "join_error", to |-> Connected({c}),
                                message |-> "Incorrect password"]>>
                   /\ UNCHANGED <<pwUsers, pwRooms, pwSock>>
              ELSE PwJoinFinish(c, p.roomId, p.username)
    /\ pwPending' = [pwPending EXCEPT ![c] = Idle]
    /\ UNCHANGED <<now, backendVars, pwConn>>

\* create_room from the insertion to its end (lines 368-387)
PwCreateFinish(c, roomId, roomName, hashedPassword, creator) ==
    /\ pwRooms' = MapSet(pwRooms, roomId,
           [name |-> roomName, password |-> hashedPassword, creator |-> creator,
            users |-> <<>>, messages |-> <<>>])
    /\ out' = <<[ev |-> "new_room", to |-> Connected(Conns), id |-> roomId,
                 name |-> roomName, userCount |-> 0,
                 hasPassword |-> hashedPassword # Null, creator |-> creator],
                [ev |-> "auto_join", to |-> Connected({c}), roomId |-> roomId,
                 roomName |-> roomName]>>

\* create_room without its check of the room id
RoomExistsNoCheck(roomId) == FALSE

\* if (rooms[roomId]) of create_room
RoomExists(roomId) == roomId \in DOMAIN pwRooms

\* the test of the password without its trim
PasswordGivenNoTrim(password) == password # Undefined /\ password # <<>>

\* if (password && password.trim()) of create_room
PasswordGiven(password) ==
    password # Undefined /\ password # <<>> /\ Trim(password) # <<>>

\* socket.on('create_room', async ...) up to the await or, without a
\* password, to its end
PwCreateRoom(c, roomId, roomName, password, creator) ==
    /\ pwConn[c] = "open"
    /\ pwPending[c] = Idle
    /\ IF RoomExists(roomId)
       THEN /\ out' = <<[ev |-> "create_error", to |-> {c},
                         message |-> "Room already exists"]>>
            /\ last' = [op |-> "create_room", phase |-> "sync", conn |-> c,
                        roomId |-> roomId, password |-> password]
            /\ UNCHANGED <<pwRooms, pwPending>>
       ELSE IF PasswordGiven(password)
       THEN /\ pwPending' = [pwPending EXCEPT ![c] =
                   [kind |-> "create", roomId |-> roomId,
                    roomName |-> roomName, password |-> password,
                    hashedPassword |-> BcryptHash(Trim(password)),
                    creator |-> creator]]
            /\ out' = <<>>
            /\ last' = [op |-> "create_room", phase |-> "await", conn |-> c,
                        roomId |-> roomId, password |-> password]
            /\ UNCHANGED pwRooms
       ELSE /\ PwCreateFinish(c, roomId, roomName, Null, creator)
            /\ last' = [op |-> "create_room", phase |-> "sync", conn |-> c,
                        roomId |-> roomId, password |-> password]
            /\ UNCHANGED pwPending
    /\ UNCHANGED <<now, backendVars, pwConn, pwUsers, pwSock>>

\* create_room resumed after await bcrypt.hash(...)
PwCreateResume(c) ==
    /\ pwPending[c].kind = "create"
    /\ LET p == pwPending[c]
       IN  /\ last' = [op |-> "create_room", phase |-> "resume", conn |-> c,
                        roomId |-> p.roomId, password |-> p.password]
           /\ PwCreateFinish(c, p.roomId, p.roomName, p.hashedPassword,
                             p.creator)
    /\ pwPending' = [pwPending EXCEPT ![c] = Idle]
    /\ UNCHANGED <<now, backendVars, pwConn, pwUsers, pwSock>>

\* if (!rooms[roomId] || !users[socket.id]) of message and file_upload
PwRejected(c, roomId) == roomId \notin DOMAIN pwRooms \/ c \notin DOMAIN pwUsers

\* socket.on('message', ...); rnd is the draw of Math.random()
PwMessage(c, roomId, text, rnd) ==
    /\ pwConn[c] = "open"
    /\ last' = [op |-> "message", conn |-> c, roomId |-> roomId]
    /\ IF PwRejected(c, roomId)
       THEN /\ out' = <<>>
            /\ UNCHANGED pwRooms
       ELSE LET messageData ==
                    [id |-> [ms |-> now, rnd |-> rnd],
                     username |-> pwUsers[c].username,
                     text |-> text, timestamp |-> now, type |-> "text"]
            IN  /\ pwRooms' = [pwRooms EXCEPT ![roomId].messages =
                                   Append(@, messageData)]
                /\ out' = <<[ev |-> "message", to |-> PwRoomSockets(pwSock, roomId),
                             msg |-> messageData]>>
    /\ UNCHANGED <<now, backendVars, pwConn, pwUsers, pwSock, pwPending>>

\* socket.on('file_upload', ...)
PwFileUpload(c, roomId, fileName, rnd) ==
    /\ pwConn[c] = "open"
    /\ last' = [op |-> "file_upload", conn |-> c, roomId |-> roomId]
    /\ IF PwRejected(c, roomId)
       THEN /\ out' = <<>>
            /\ UNCHANGED pwRooms
       ELSE LET messageData ==
                    [id |-> [ms |-> now, rnd |-> rnd],
                     username |-> pwUsers[c].username,
                     fileName |-> fileName, fileData |-> "data",
                     fileType |-> "type", timestamp |-> now, type |-> "file"]
            IN  /\ pwRooms' = [pwRooms EXCEPT ![roomId].messages =
                                   Append(@, messageData)]
                /\ out' = <<[ev |-> "message", to |-> PwRoomSockets(pwSock, roomId),
                             msg |-> messageData]>>
    /\ UNCHANGED <<now, backendVars, pwConn, pwUsers, pwSock, pwPending>>

\* socket.on('typing', ...)
PwTyping(c, roomId, typing) ==
    /\ pwConn[c] = "open"
    /\ last' = [op |-> "typing", conn |-> c, roomId |-> roomId,
                isTyping |-> typing]
    /\ IF PwRejected(c, roomId)
       THEN out' = <<>>
       ELSE out' = <<[ev |-> "user_typing",
                      to |-> PwRoomSockets(pwSock, roomId) \ {c},
                      username |-> pwUsers[c].username, isTyping |-> typing]>>
    /\ UNCHANGED <<now, backendVars, pwVars>>

\* socket.on('disconnect', ...); socket.io has already taken the socket out
\* of every socket.io room when the handler runs
PwDisconnect(c) ==
    /\ pwConn[c] = "open"
    /\ pwConn' = [pwConn EXCEPT ![c] = "closed"]
    /\ last' = [op |-> "disconnect", conn |-> c]
    /\ LET sock1 == [pwSock EXCEPT ![c] = {}]
           roomId == pwUsers[c].currentRoom
       IN  /\ pwSock' = sock1
           /\ IF c \in DOMAIN pwUsers /\ c \in Range(pwRooms[roomId].users)
              THEN LET rooms1 == [pwRooms EXCEPT ![roomId].users = RemoveFirst(@, c)]
                   IN  /\ pwRooms' = rooms1
                       /\ out' = <<[ev |-> "user_left",
                                    to |-> PwRoomSockets(sock1, roomId) \ {c},
                                    username |-> pwUsers[c].username,
                                    roomId |-> roomId],
                                   [ev |-> "room_update",
                                    to |-> Connected(Conns) \ {c},
                                    roomId |-> roomId,
                                    userCount |-> Len(rooms1[roomId].users),
                                    hasPassword |-> rooms1[roomId].password # Null]>>
              ELSE /\ out' = <<>>
                   /\ UNCHANGED pwRooms
    /\ pwUsers' = MapDelete(pwUsers, c)
    /\ UNCHANGED <<now, backendVars, pwPending>>

\* a handler of a server runs for a socket that is not a Chat client's; the
\* handlers touch neither the client nor the documents on disk
NoChat(A) == A /\ UNCHANGED <<chatVars, diskVars, otherVars>>

PwNext ==
    \/ \E c \in Conns : NoChat(PwConnect(c))
    \/ \E c \in Conns, roomId \in PwRoomInputs, username \in PwNameInputs,
          password \in PwPasswordInputs :
             NoChat(PwJoinRoom(c, roomId, username, password))
    \/ \E c \in Conns : NoChat(PwJoinResume(c))
    \/ \E c \in Conns, roomId \in PwRoomInputs, password \in PwPasswordInputs,
          creator \in PwNameInputs :
             NoChat(PwCreateRoom(c, roomId, "Vip", password, creator))
    \/ \E c \in Conns : NoChat(PwCreateResume(c))
    \/ \E c \in Conns, roomId \in PwRoomInputs, text \in PwTextInputs :
          PwTotalMessages < MaxPwSends /\ NoChat(PwMessage(c, roomId, text, 0))
    \/ \E c \in Conns, roomId \in PwRoomInputs :
          PwTotalMessages < MaxPwSends
             /\ NoChat(PwFileUpload(c, roomId, <<"f">>, 0))
    \/ \E c \in Conns : NoChat(PwDisconnect(c))

SpecPw == Init /\ [][PwNext]_vars

(***************************************************************************)
(* SpecPwDeep: one socket joins the room general of the password-room      *)
(* server and sends MaxPwDeepSends messages into it, text messages and     *)
(* file uploads in turn; the k-th carries the text or file name k.         *)
(***************************************************************************)
PwDeepNext ==
    \/ NoChat(PwConnect(DeepConn))
    \/ NoChat(PwJoinRoom(DeepConn, "general", "ann", Undefined))
    \/ /\ PwTotalMessages < MaxPwDeepSends
       /\ PwTotalMessages % 2 = 0
       /\ NoChat(PwMessage(DeepConn, "general", DecStr(PwTotalMessages + 1), 0))
    \/ /\ PwTotalMessages < MaxPwDeepSends
       /\ PwTotalMessages % 2 = 1
       /\ NoChat(PwFileUpload(DeepConn, "general",
                              DecStr(PwTotalMessages + 1), 0))

SpecPwDeep == Init /\ [][PwDeepNext]_vars

Next ==
    \/ \E c \in Conns : NoChat(Connect(c))
    \/ \E c \in Conns : NoChat(RegisterUser(c, MainName))
    \/ \E c \in Conns, roomName \in RoomInputs : NoChat(JoinRoom(c, roomName))
    \/ \E c \in Conns, room \in RoomInputs, message \in TextInputs, rnd \in {0} :
          TotalAccepted < MaxSends /\ NoChat(SendMessage(c, room, message, rnd))
    \/ \E c \in Conns : NoChat(GetRooms(c))
    \/ \E c \in Conns, roomName \in RoomInputs : NoChat(LeaveRoom(c, roomName))
    \/ \E c \in Conns : NoChat(Disconnect(c))

Spec == Init /\ [][Next]_vars

TypeOK ==
    /\ now \in 0..MaxClock
    /\ DOMAIN users \subseteq Conns
    /\ \A r \in DOMAIN rooms : rooms[r].users \subseteq Conns

(***************************************************************************)
(* SpecRegister: sockets register under every kind of proposed name, also  *)
(* more than once, join a room and disconnect.                             *)
(***************************************************************************)
RegisterNext ==
    \/ \E c \in Conns : NoChat(Connect(c))
    \/ \E c \in Conns, username \in RegisterInputs :
          NoChat(RegisterUser(c, username))
    \/ \E c \in Conns : NoChat(JoinRoom(c, DeepRoom))
    \/ \E c \in Conns : NoChat(Disconnect(c))

SpecRegister == Init /\ [][RegisterNext]_vars

(***************************************************************************)
(* SpecHistory: socket DeepConn registers, joins the room DeepRoom and     *)
(* sends MaxHistorySends messages into it, the k-th with the text k, while *)
(* socket PeerConn registers, joins the room at any moment, leaves it and  *)
(* joins it again; each socket registers once.  While PeerConn is in the   *)
(* room, observed records what it was sent: the messages of its last       *)
(* room_history, the number of messages accepted when that join_room ran,  *)
(* and the messages of the receive_message events since.                   *)
(***************************************************************************)
\* the record of what PeerConn was sent, after the events o of a handler
\* that ran when n messages had been accepted in DeepRoom
Observe(o, n) ==
    LET history == SelectSeq(o, LAMBDA e :
                       e.ev = "room_history" /\ PeerConn \in e.to
                          /\ e.room = DeepRoom)
        live == SelectSeq(o, LAMBDA e :
                       e.ev = "receive_message" /\ PeerConn \in e.to
                          /\ e.msg.room = DeepRoom)
    IN  IF history # <<>>
        THEN [joined |-> TRUE, joinedAt |-> n,
              snapshot |-> history[Len(history)].messages, live |-> <<>>]
        ELSE [observed EXCEPT
                 !.live = @ \o [i \in 1..Len(live) |-> live[i].msg]]

\* a handler of the multi-room server runs and PeerConn is watched
Observed(A) ==
    /\ A
    /\ observed' = Observe(out', IF DeepRoom \in DOMAIN accepted
                                 THEN Len(accepted[DeepRoom]) ELSE 0)
    /\ UNCHANGED <<chatVars, diskVars, simpleVars, appVars>>

\* PeerConn leaves the room and what it was sent is forgotten
Unobserved(A) ==
    /\ A
    /\ observed' = NotObserved
    /\ UNCHANGED <<chatVars, diskVars, simpleVars, appVars>>

HistoryNext ==
    \/ \E c \in Conns : Observed(Connect(c))
    \/ \E c \in Conns :
          c \notin DOMAIN users /\ Observed(RegisterUser(c, MainName))
    \/ /\ DeepRoom \in DOMAIN rooms => DeepConn \notin rooms[DeepRoom].users
       /\ Observed(JoinRoom(DeepConn, DeepRoom))
    \/ Observed(JoinRoom(PeerConn, DeepRoom))
    \/ /\ TotalAccepted < MaxHistorySends
       /\ Observed(SendMessage(DeepConn, DeepRoom, DecStr(TotalAccepted + 1), 0))
    \/ /\ DeepRoom \in DOMAIN rooms
       /\ PeerConn \in rooms[DeepRoom].users
       /\ Unobserved(LeaveRoom(PeerConn, DeepRoom))

SpecHistory == Init /\ [][HistoryNext]_vars

(***************************************************************************)
(* SpecBurst: one socket sends a burst of messages into one room while     *)
(* the wall clock may or may not advance between two sends and             *)
(* Math.random() may draw anything.                                        *)
(***************************************************************************)
BurstNext ==
    \/ Tick
    \/ NoChat(Connect(DeepConn))
    \/ \E username \in NameInputs : NoChat(RegisterUser(DeepConn, username))
    \/ NoChat(JoinRoom(DeepConn, DeepRoom))
    \/ \E message \in TextInputs, rnd \in RndDraws :
          TotalAccepted < MaxBurst
             /\ NoChat(SendMessage(DeepConn, DeepRoom, message, rnd))

SpecBurst == Init /\ [][BurstNext]_vars

(***************************************************************************)
(* SpecEvict: one socket registers, joins one room and sends               *)
(* MaxDeepSends messages into it; the k-th message has the text k.         *)
(***************************************************************************)
EvictNext ==
    \/ NoChat(Connect(DeepConn))
    \/ NoChat(RegisterUser(DeepConn, MainName))
    \/ NoChat(JoinRoom(DeepConn, DeepRoom))
    \/ /\ TotalAccepted < MaxDeepSends
       /\ NoChat(SendMessage(DeepConn, DeepRoom, DecStr(TotalAccepted + 1), 0))

SpecEvict == Init /\ [][EvictNext]_vars

(***************************************************************************)
(* src/server.js, the password-room server: persistence.  A document on    *)
(* disk is kept as the value JSON.parse gives back for it.  The server     *)
(* listens only once loadData has finished, so no handler runs during it;  *)
(* handlers do run between the two writes of saveData.                     *)
(***************************************************************************)
\* JSON.parse(JSON.stringify(m)) of a message: a property whose value is
\* undefined is not written
JsonMessage(m) ==
    IF "text" \in DOMAIN m /\ m.text = Undefined
    THEN [f \in (DOMAIN m) \ {"text"} |-> m[f]]
    ELSE m

JsonMessages(ms) == [i \in 1..Len(ms) |-> JsonMessage(ms[i])]

\* saveData up to its first await: messagesToSave is built and written
SaveDataStart ==
    /\ ~saving
    /\ messagesFile' = [roomId \in DOMAIN pwRooms |->
                           JsonMessages(SliceLast(pwRooms[roomId].messages,
                                                  SaveLimit))]
    /\ saving' = TRUE
    /\ savedWhole' = FALSE
    /\ last' = [op |-> "saveData", phase |-> "messages"]
    /\ out' = <<>>
    /\ UNCHANGED <<now, backendVars, pwVars, chatVars, otherVars, roomsFile>>

\* saveData after its first await: roomsToSave is built and written
SaveDataFinish ==
    /\ saving
    /\ roomsFile' = [roomId \in DOMAIN pwRooms |->
                        [name |-> pwRooms[roomId].name,
                         password |-> pwRooms[roomId].password,
                         creator |-> pwRooms[roomId].creator,
                         users |-> <<>>, messages |-> <<>>]]
    /\ saving' = FALSE
    /\ savedWhole' = TRUE
    /\ last' = [op |-> "saveData", phase |-> "rooms"]
    /\ out' = <<>>
    /\ UNCHANGED <<now, backendVars, pwVars, chatVars, otherVars, messagesFile>>

\* "Merge saved data" of loadData: the saved logs go into the rooms present,
\* then every saved room record replaces or extends the rooms
LoadData(rs, savedMessages, savedRooms) ==
    LET merged == [roomId \in DOMAIN rs |->
                      IF roomId \in DOMAIN savedMessages
                      THEN [rs[roomId] EXCEPT !.messages = savedMessages[roomId]]
                      ELSE rs[roomId]]
    IN  [roomId \in (DOMAIN merged) \cup (DOMAIN savedRooms) |->
            IF roomId \in DOMAIN savedRooms THEN savedRooms[roomId]
            ELSE merged[roomId]]

\* the process ends (SIGINT after its saveData, or a crash) and is started
\* again: every socket is gone, the module starts from the default rooms
\* and loadData reads both documents
Restart ==
    /\ pwConn' = [c \in Conns |-> IF pwConn[c] = "new" THEN "new" ELSE "closed"]
    /\ pwUsers' = <<>>
    /\ pwSock' = [c \in Conns |-> {}]
    /\ pwPending' = [c \in Conns |-> Idle]
    /\ pwRooms' = LoadData(DefaultRooms, messagesFile, roomsFile)
    /\ saving' = FALSE
    /\ last' = [op |-> "loadData", whole |-> savedWhole]
    /\ out' = <<>>
    /\ UNCHANGED <<now, backendVars, chatVars, otherVars, messagesFile, roomsFile,
                   savedWhole>>

(***************************************************************************)
(* SpecPersist: sockets join rooms and send messages while saveData runs   *)
(* from time to time and the process is restarted.                         *)
(***************************************************************************)
PersistNext ==
    \/ \E c \in Conns : NoChat(PwConnect(c))
    \/ \E c \in Conns, roomId \in PwRoomInputs :
          NoChat(PwJoinRoom(c, roomId, "ann", <<"p">>))
    \/ \E c \in Conns : NoChat(PwJoinResume(c))
    \/ NoChat(PwCreateRoom(DeepConn, "vip", "Vip", <<"p">>, "ann"))
    \/ NoChat(PwCreateResume(DeepConn))
    \/ \E c \in Conns, roomId \in PwRoomInputs,
          text \in PwTextInputs \cup {Undefined} :
          PwTotalMessages < MaxPersistSends
             /\ NoChat(PwMessage(c, roomId, text, 0))
    \/ SaveDataStart
    \/ SaveDataFinish
    \/ Restart

SpecPersist == Init /\ [][PersistNext]_vars

(***************************************************************************)
(* SpecCreate: sockets create rooms with every kind of password, join them *)
(* and disconnect.                                                         *)
(***************************************************************************)
CreateNext ==
    \/ \E c \in Conns : NoChat(PwConnect(c))
    \/ \E c \in Conns, roomId \in PwRoomInputs, password \in CreatePasswords :
          NoChat(PwCreateRoom(c, roomId, "Vip", password, "ann"))
    \/ \E c \in Conns : NoChat(PwCreateResume(c))
    \/ \E c \in Conns, roomId \in PwRoomInputs :
          NoChat(PwJoinRoom(c, roomId, "ann", <<"p">>))
    \/ \E c \in Conns : NoChat(PwJoinResume(c))
    \/ \E c \in Conns : NoChat(PwDisconnect(c))

SpecCreate == Init /\ [][CreateNext]_vars

(***************************************************************************)
(* src/server.js, lines 1 to 146: the simple server.  A socket that        *)
(* disconnects leaves its socket.io rooms; the disconnect handler itself   *)
(* deletes the user record only.                                           *)
(***************************************************************************)
notSimpleVars == <<now, backendVars, pwVars, chatVars, diskVars, appVars,
                   observed>>

\* the sockets a broadcast to a socket.io room of the simple server reaches
SimpleRoomSockets(roomName) == {d \in Conns : roomName \in simpleSock[d]}

\* user?.username || socket.id
SimpleUserName(c) ==
    IF c \in DOMAIN simpleUsers /\ simpleUsers[c].username # Undefined
          /\ simpleUsers[c].username # <<>>
    THEN simpleUsers[c].username
    ELSE c

SimpleTotalMessages ==
    LET RECURSIVE Sum(_)
        Sum(S) == IF S = {} THEN 0
                  ELSE LET r == CHOOSE x \in S : TRUE
                       IN  Len(simpleRooms[r].messages) + Sum(S \ {r})
    IN  Sum(DOMAIN simpleRooms)

\* io.on('connection', ...)
SimpleConnect(c) ==
    /\ simpleConn[c] = "new"
    /\ simpleConn' = [simpleConn EXCEPT ![c] = "open"]
    /\ out' = <<>>
    /\ last' = [op |-> "connection", server |-> "simple", conn |-> c]
    /\ UNCHANGED <<simpleUsers, simpleRooms, simpleSock, notSimpleVars>>

\* socket.on('register_user', ...)
SimpleRegisterUser(c, username) ==
    /\ simpleConn[c] = "open"
    /\ simpleUsers' = MapSet(simpleUsers, c,
                             [username |-> username, rooms |-> {}])
    /\ out' = <<[ev |-> "user_registered", to |-> {c},
                 userId |-> c, username |-> username]>>
    /\ last' = [op |-> "register_user", server |-> "simple", conn |-> c,
                username |-> username]
    /\ UNCHANGED <<simpleConn, simpleRooms, simpleSock, notSimpleVars>>

\* socket.on('join_room', ...)
SimpleJoinRoom(c, roomName) ==
    /\ simpleConn[c] = "open"
    /\ last' = [op |-> "join_room", server |-> "simple", conn |-> c,
                room |-> roomName]
    /\ LET rooms1 == IF roomName \in DOMAIN simpleRooms THEN simpleRooms
                     ELSE MapSet(simpleRooms, roomName,
                                 [name |-> roomName, users |-> {},
                                  messages |-> <<>>])
           rooms2 == [rooms1 EXCEPT ![roomName].users = @ \cup {c}]
       IN  /\ simpleRooms' = rooms2
           /\ simpleUsers' =
                 IF c \in DOMAIN simpleUsers
                 THEN [simpleUsers EXCEPT ![c].rooms = @ \cup {roomName}]
                 ELSE simpleUsers
           /\ simpleSock' = [simpleSock EXCEPT ![c] = @ \cup {roomName}]
           /\ out' = <<[ev |-> "room_history", to |-> {c}, room |-> roomName,
                        messages |-> SliceLast(rooms2[roomName].messages,
                                               SimpleHistoryLimit)],
                       [ev |-> "user_joined",
                        to |-> SimpleRoomSockets(roomName) \ {c},
                        room |-> roomName, user |-> SimpleUserName(c)]>>
    /\ UNCHANGED <<simpleConn, notSimpleVars>>

\* socket.on('send_message', ...)
SimpleSendMessage(c, room, message) ==
    /\ simpleConn[c] = "open"
    /\ last' = [op |-> "send_message", server |-> "simple", conn |-> c,
                room |-> room, message |-> message]
    /\ IF room \notin DOMAIN simpleRooms
       THEN /\ out' = <<>>
            /\ UNCHANGED simpleRooms
       ELSE LET messageData ==
                    [id |-> now,
                     user |-> IF SimpleUserName(c) = c THEN "Anonymous"
                              ELSE SimpleUserName(c),
                     message |-> message, timestamp |-> now]
            IN  /\ simpleRooms' = [simpleRooms EXCEPT ![room].messages =
                                      Append(@, messageData)]
                /\ out' = <<[ev |-> "receive_message",
                             to |-> SimpleRoomSockets(room),
                             msg |-> messageData]>>
    /\ UNCHANGED <<simpleConn, simpleUsers, simpleSock, notSimpleVars>>

\* socket.on('leave_room', ...)
SimpleLeaveRoom(c, roomName) ==
    /\ simpleConn[c] = "open"
    /\ last' = [op |-> "leave_room", server |-> "simple", conn |-> c,
                room |-> roomName]
    /\ simpleSock' = [simpleSock EXCEPT ![c] = @ \ {roomName}]
    /\ simpleRooms' =
          IF roomName \in DOMAIN simpleRooms
          THEN [simpleRooms EXCEPT ![roomName].users = @ \ {c}]
          ELSE simpleRooms
    /\ simpleUsers' =
          IF c \in DOMAIN simpleUsers
          THEN [simpleUsers EXCEPT ![c].rooms = @ \ {roomName}]
          ELSE simpleUsers
    /\ out' = <<[ev |-> "user_left",
                 to |-> SimpleRoomSockets(roomName) \ {c},
                 room |-> roomName, user |-> SimpleUserName(c)]>>
    /\ UNCHANGED <<simpleConn, notSimpleVars>>

\* socket.on('get_rooms', ...)
SimpleGetRooms(c) ==
    /\ simpleConn[c] = "open"
    /\ last' = [op |-> "get_rooms", server |-> "simple", conn |-> c]
    /\ out' = <<[ev |-> "rooms_list", to |-> {c},
                 list |-> [r \in DOMAIN simpleRooms |->
                             [name |-> simpleRooms[r].name,
                              userCount |->
                                 Cardinality(simpleRooms[r].users)]]]>>
    /\ UNCHANGED <<simpleConn, simpleUsers, simpleRooms, simpleSock,
                   notSimpleVars>>

\* socket.on('disconnect', ...)
SimpleDisconnect(c) ==
    /\ simpleConn[c] = "open"
    /\ simpleConn' = [simpleConn EXCEPT ![c] = "closed"]
    /\ simpleSock' = [simpleSock EXCEPT ![c] = {}]
    /\ simpleUsers' = MapDelete(simpleUsers, c)
    /\ out' = <<>>
    /\ last' = [op |-> "disconnect", server |-> "simple", conn |-> c]
    /\ UNCHANGED <<simpleRooms, notSimpleVars>>

SimpleNext ==
    \/ \E c \in Conns : SimpleConnect(c)
    \/ \E c \in Conns, username \in SimpleNameInputs :
          SimpleRegisterUser(c, username)
    \/ \E c \in Conns, roomName \in SimpleRoomInputs : SimpleJoinRoom(c, roomName)
    \/ \E c \in Conns, room \in SimpleRoomInputs :
          SimpleTotalMessages < MaxSimpleSends
             /\ SimpleSendMessage(c, room, <<"h">>)
    \/ \E c \in Conns, roomName \in SimpleRoomInputs :
          SimpleLeaveRoom(c, roomName)
    \/ \E c \in Conns : SimpleGetRooms(c)
    \/ \E c \in Conns : SimpleDisconnect(c)

SpecSimple == Init /\ [][SimpleNext]_vars

(***************************************************************************)
(* src/unnamed/part_002, the Chat client of the password-room server (the  *)
(* handlers of src/src/components/Chat.jsx that it shares are the same     *)
(* code).  A handler registered on the socket, and a timer callback, reads *)
(* the React state of the render that created it; a handler of the page    *)
(* (onChange, onBlur, onSubmit, onClick) is the one of the latest render.  *)
(* socketRef.retryCount is the retryCount the handlers of the current      *)
(* socket were created with.  The states rooms, roomName, messages,        *)
(* typingUsers, passwordModal and joinError are only displayed and are     *)
(* left out, with the events that only set them.                           *)
(* socket.io-client is configured with reconnection: true: a socket that   *)
(* failed to connect or lost its transport keeps trying, and every failed  *)
(* attempt is a connect_error; events emitted while it has no transport    *)
(* are buffered and sent when it connects.                                 *)
(***************************************************************************)
MaxRetries == 5
ChatUser == "ann"

\* socketRef.current.emit(...): the event joins the socket's buffer
Emit(buffer, events) == buffer \o events

\* initializeSocket() called from a render in which retryCount was capRetry:
\* the previous socket is dropped with its buffers, a new one starts to
\* connect
InitializeSocket(capRetry) ==
    /\ socketRef' = [state |-> "opening", id |-> "none", retryCount |-> capRetry]
    /\ connectionStatus' = "connecting"
    /\ sendBuffer' = <<>>
    /\ receiveBuffer' = <<>>

\* the handshake of the client's socket with the server: io.on('connection')
\* on the server, socketRef.current.on('connect') on the client
OnConnect(c) ==
    /\ socketRef.state \in {"opening", "lost"}
    /\ PwConnect(c)
    /\ socketRef' = [socketRef EXCEPT !.state = "open", !.id = c]
    /\ connected' = TRUE
    /\ connectionStatus' = "connected"
    /\ retryCount' = 0
    /\ sendBuffer' = Emit(sendBuffer, <<[ev |-> "client_info"]>>)
    /\ errorsInARow' = 0
    /\ UNCHANGED <<currentRoom, isTyping, input, typingTimeoutRef,
                   reconnectTimers, receiveBuffer, typingSent, diskVars,
                   otherVars>>

\* socketRef.current.on('connect_error', ...)
OnConnectError ==
    /\ socketRef.state \in {"opening", "lost"}
    /\ connected' = FALSE
    /\ LET newRetryCount == socketRef.retryCount + 1
       IN  /\ retryCount' = newRetryCount
           /\ IF newRetryCount <= MaxRetries
              THEN /\ connectionStatus' = "error"
                   /\ reconnectTimers' =
                         Append(reconnectTimers, socketRef.retryCount)
              ELSE /\ connectionStatus' = "failed"
                   /\ UNCHANGED reconnectTimers
    /\ errorsInARow' = errorsInARow + 1
    /\ last' = [op |-> "client connect_error"]
    /\ out' = <<>>
    /\ UNCHANGED <<now, backendVars, pwVars, diskVars, otherVars,
                   socketRef, currentRoom, isTyping,
                   input, typingTimeoutRef, sendBuffer, receiveBuffer,
                   typingSent>>

\* reconnectTimeoutRef.current = setTimeout(() => initializeSocket(), 3000):
\* the timers have the same delay and fire in the order they were set
ReconnectTimeout ==
    /\ reconnectTimers # <<>>
    /\ InitializeSocket(Head(reconnectTimers))
    /\ reconnectTimers' = Tail(reconnectTimers)
    /\ last' = [op |-> "client reconnect timer"]
    /\ out' = <<>>
    /\ UNCHANGED <<now, backendVars, pwVars, diskVars, otherVars,
                   connected, retryCount, currentRoom,
                   isTyping, input, typingTimeoutRef, errorsInARow, typingSent>>

\* manualReconnect, the button being enabled
ManualReconnect ==
    /\ connectionStatus \notin {"connecting", "reconnecting"}
    /\ retryCount' = 0
    /\ InitializeSocket(retryCount)
    /\ errorsInARow' = 0
    /\ last' = [op |-> "client manualReconnect"]
    /\ out' = <<>>
    /\ UNCHANGED <<now, backendVars, pwVars, diskVars, otherVars,
                   connected, currentRoom, isTyping,
                   input, typingTimeoutRef, reconnectTimers, typingSent>>

\* socketRef.current.on('disconnect', ...) once the transport is gone (the
\* reason is not 'io server disconnect': the server never disconnects a
\* socket); what was in flight is lost
OnDisconnect ==
    /\ socketRef.state = "open"
    /\ pwConn[socketRef.id] = "closed"
    /\ socketRef' = [socketRef EXCEPT !.state = "lost"]
    /\ connected' = FALSE
    /\ connectionStatus' = "disconnected"
    /\ sendBuffer' = <<>>
    /\ receiveBuffer' = <<>>
    /\ last' = [op |-> "client disconnect"]
    /\ out' = <<>>
    /\ UNCHANGED <<now, backendVars, pwVars, diskVars, otherVars,
                   retryCount, currentRoom, isTyping,
                   input, typingTimeoutRef, reconnectTimers, errorsInARow,
                   typingSent>>

\* joinRoomWithPassword(roomId, roomName, password) from the room list
JoinRoomWithPassword(roomId, password) ==
    /\ last' = [op |-> "client joinRoomWithPassword", roomId |-> roomId]
    /\ IF ~connected
       THEN /\ out' = <<>>
            /\ UNCHANGED sendBuffer
       ELSE LET e == [ev |-> "join_room", roomId |-> roomId,
                      username |-> ChatUser, password |-> password]
            IN  /\ out' = <<e>>
                /\ sendBuffer' = Emit(sendBuffer, <<e>>)
    /\ UNCHANGED <<now, backendVars, pwVars, diskVars, otherVars,
                   socketRef, connected,
                   connectionStatus, retryCount, currentRoom, isTyping, input,
                   typingTimeoutRef, reconnectTimers, receiveBuffer,
                   errorsInARow, typingSent>>

\* socketRef.current.on('room_joined', ...)
OnRoomJoined ==
    /\ receiveBuffer # <<>>
    /\ Head(receiveBuffer).ev = "room_joined"
    /\ currentRoom' = Head(receiveBuffer).roomId
    /\ receiveBuffer' = Tail(receiveBuffer)
    /\ last' = [op |-> "client room_joined"]
    /\ out' = <<>>
    /\ UNCHANGED <<now, backendVars, pwVars, diskVars, otherVars,
                   socketRef, connected,
                   connectionStatus, retryCount, isTyping, input,
                   typingTimeoutRef, reconnectTimers, sendBuffer, errorsInARow,
                   typingSent>>

\* the events stopTyping() emits when called from the latest render
StopTypingEvents ==
    IF isTyping /\ connected /\ currentRoom # "null"
    THEN <<[ev |-> "typing", roomId |-> currentRoom, isTyping |-> FALSE]>>
    ELSE <<>>

\* onChange of the input (enabled when connected && currentRoom):
\* setInput(e.target.value); handleTyping()
HandleTyping(value) ==
    /\ connected /\ currentRoom # "null"
    /\ input' = value
    /\ LET events == IF ~isTyping
                     THEN <<[ev |-> "typing", roomId |-> currentRoom,
                             isTyping |-> TRUE]>>
                     ELSE <<>>
       IN  /\ out' = events
           /\ sendBuffer' = Emit(sendBuffer, events)
           /\ typingSent' = IF events # <<>> THEN "true" ELSE typingSent
    /\ isTyping' = TRUE
    /\ typingTimeoutRef' = [set |-> TRUE, isTyping |-> isTyping,
                            currentRoom |-> currentRoom]
    /\ last' = [op |-> "client handleTyping"]
    /\ UNCHANGED <<now, backendVars, pwVars, diskVars, otherVars,
                   socketRef, connected,
                   connectionStatus, retryCount, currentRoom, reconnectTimers,
                   receiveBuffer, errorsInARow>>

\* the callback of the timer set by handleTyping, 1000 ms after the last
\* keystroke: it reads the isTyping of the render that set it
TypingTimeout ==
    /\ typingTimeoutRef.set
    /\ typingTimeoutRef' = [set |-> FALSE]
    /\ last' = [op |-> "client typing timer"]
    /\ IF typingTimeoutRef.isTyping
       THEN LET e == [ev |-> "typing", roomId |-> typingTimeoutRef.currentRoom,
                      isTyping |-> FALSE]
            IN  /\ isTyping' = FALSE
                /\ out' = <<e>>
                /\ sendBuffer' = Emit(sendBuffer, <<e>>)
                /\ typingSent' = "false"
       ELSE /\ out' = <<>>
            /\ UNCHANGED <<isTyping, sendBuffer, typingSent>>
    /\ UNCHANGED <<now, backendVars, pwVars, diskVars, otherVars,
                   socketRef, connected,
                   connectionStatus, retryCount, currentRoom, input,
                   reconnectTimers, receiveBuffer, errorsInARow>>

\* onBlur of the input: stopTyping()
StopTyping ==
    /\ connected /\ currentRoom # "null"
    /\ out' = StopTypingEvents
    /\ sendBuffer' = Emit(sendBuffer, StopTypingEvents)
    /\ typingSent' = IF StopTypingEvents # <<>> THEN "false" ELSE typingSent
    /\ isTyping' = FALSE
    /\ typingTimeoutRef' = [set |-> FALSE]
    /\ last' = [op |-> "client stopTyping"]
    /\ UNCHANGED <<now, backendVars, pwVars, diskVars, otherVars,
                   socketRef, connected,
                   connectionStatus, retryCount, currentRoom, input,
                   reconnectTimers, receiveBuffer, errorsInARow>>

\* onSubmit of the form: sendMessage(e)
ChatSendMessage ==
    /\ last' = [op |-> "client sendMessage"]
    /\ IF Trim(input) = <<>> \/ ~connected \/ currentRoom = "null"
       THEN /\ out' = <<>>
            /\ UNCHANGED <<input, isTyping, typingTimeoutRef, sendBuffer,
                           typingSent>>
       ELSE LET events == <<[ev |-> "message", roomId |-> currentRoom,
                             text |-> Trim(input)]>> \o StopTypingEvents
            IN  /\ out' = events
                /\ sendBuffer' = Emit(sendBuffer, events)
                /\ input' = <<>>
                /\ isTyping' = FALSE
                /\ typingTimeoutRef' = [set |-> FALSE]
                /\ typingSent' = IF StopTypingEvents # <<>> THEN "false"
                                 ELSE typingSent
    /\ UNCHANGED <<now, backendVars, pwVars, diskVars, otherVars,
                   socketRef, connected,
                   connectionStatus, retryCount, currentRoom, reconnectTimers,
                   receiveBuffer, errorsInARow>>

\* the events on their way between the client and the server
InFlight == Len(sendBuffer) + Len(receiveBuffer)

\* the events of o sent to socket c whose handler sets modelled state
ForClient(o, c) ==
    SelectSeq(o, LAMBDA e : e.ev = "room_joined" /\ c \in e.to)

\* the server handles the next event of the client's socket
ServerReceive ==
    /\ socketRef.state = "open"
    /\ pwConn[socketRef.id] = "open"
    /\ sendBuffer # <<>>
    /\ LET e == Head(sendBuffer)
           c == socketRef.id
       IN  CASE e.ev = "join_room" ->
                   PwJoinRoom(c, e.roomId, e.username, e.password)
             [] e.ev = "message" -> PwMessage(c, e.roomId, e.text, 0)
             [] e.ev = "typing" -> PwTyping(c, e.roomId, e.isTyping)
             [] OTHER -> /\ last' = [op |-> "unhandled", conn |-> c]
                         /\ out' = <<>>
                         /\ UNCHANGED <<now, backendVars, pwVars>>
    /\ sendBuffer' = Tail(sendBuffer)
    /\ receiveBuffer' = receiveBuffer \o ForClient(out', socketRef.id)
    /\ UNCHANGED <<socketRef, connected, connectionStatus, retryCount,
                   currentRoom, isTyping, input, typingTimeoutRef,
                   reconnectTimers, errorsInARow, typingSent, diskVars,
                   otherVars>>

(***************************************************************************)
(* SpecTyping: a Chat client on socket c1 and another user on socket c2    *)
(* join the room general; the user of the client types, leaves the input,  *)
(* sends, or stays idle until the typing timer fires.                      *)
(***************************************************************************)
TypingNext ==
    \/ OnConnect(DeepConn)
    \/ NoChat(PwConnect(PeerConn))
    \/ NoChat(PwJoinRoom(PeerConn, "general", "bob", <<>>))
    \/ InFlight < MaxBuffer /\ JoinRoomWithPassword("general", <<>>)
    \/ OnRoomJoined
    \/ ServerReceive
    \/ \E value \in ChatInputs :
          InFlight < MaxBuffer /\ HandleTyping(value)
    \/ TypingTimeout
    \/ StopTyping
    \/ /\ InFlight < MaxBuffer
       /\ PwTotalMessages < MaxChatSends
       /\ ChatSendMessage

SpecTyping == Init /\ [][TypingNext]_vars

(***************************************************************************)
(* SpecRetry: a Chat client whose connection attempts fail or succeed,     *)
(* whose transport is lost, and whose user presses the reconnect button.   *)
(***************************************************************************)
RetryNext ==
    \/ \E c \in Conns : pwConn[c] = "new" /\ OnConnect(c)
    \/ /\ errorsInARow < MaxErrors
       /\ Len(reconnectTimers) < MaxTimers
       /\ socketRef.retryCount <= MaxRetries
       /\ OnConnectError
    \/ ReconnectTimeout
    \/ ManualReconnect
    \/ \E c \in Conns : NoChat(PwDisconnect(c))
    \/ OnDisconnect

SpecRetry == Init /\ [][RetryNext]_vars

(***************************************************************************)
(* SpecReconnect: a Chat client that connects, joins general, types and    *)
(* sends, loses its transport and is connected again by socket.io.         *)
(***************************************************************************)
ReconnectNext ==
    \/ \E c \in Conns : pwConn[c] = "new" /\ OnConnect(c)
    \/ \E c \in Conns : NoChat(PwDisconnect(c))
    \/ OnDisconnect
    \/ InFlight < MaxBuffer /\ JoinRoomWithPassword("general", <<>>)
    \/ OnRoomJoined
    \/ ServerReceive
    \/ InFlight < MaxBuffer /\ HandleTyping(<<"h">>)
    \/ TypingTimeout
    \/ /\ InFlight < MaxBuffer
       /\ PwTotalMessages < MaxChatSends
       /\ ChatSendMessage

SpecReconnect == Init /\ [][ReconnectNext]_vars

(***************************************************************************)
(* src/unnamed/part_004, the App client, on the socket AppConn of          *)
(* src/backend/server.js.  The socket is created once, when the component  *)
(* mounts; the events of a socket travel in order in both directions.      *)
(* The text fields (username, newRoomName, message) are filled in and      *)
(* submitted in one step.  The handlers are the interface of the client:   *)
(* which of them the page offers is decided by the rendering, which is not *)
(* modelled, except that the controls are disabled while isConnected is    *)
(* false.  The handlers of connected, user_registered, error and pong set  *)
(* the status line or open an alert only, and are left out with their      *)
(* events.                                                                 *)
(***************************************************************************)
notAppVars == <<now, backendVars, pwVars, chatVars, diskVars, simpleVars,
                observed>>

\* the events on their way between the App client and the server
AppInFlight == Len(appOut) + Len(appIn)

\* the events of o sent to the client's socket whose handler sets messages
\* or rooms
AppEvents(o) ==
    SelectSeq(o, LAMBDA e :
        /\ AppConn \in e.to
        /\ e.ev \in {"receive_message", "room_history", "rooms_list",
                     "user_joined", "user_left"})

\* a handler of the server runs for the other socket: what it emits to the
\* client's socket is on its way
AppPeer(A) ==
    /\ A
    /\ appIn' = appIn \o AppEvents(out')
    /\ UNCHANGED <<appConnected, appCurrentRoom, appMessages, appRooms, appOut,
                   appSent, chatVars, diskVars, simpleVars,
                   observed>>

\* newSocket.on('connect', ...) with io.on('connection') on the server, and
\* the effect that fetches the rooms once isConnected is true
AppOnConnect ==
    /\ ~appConnected
    /\ Connect(AppConn)
    /\ appConnected' = TRUE
    /\ appOut' = Append(appOut, [ev |-> "get_rooms"])
    /\ UNCHANGED <<appCurrentRoom, appMessages, appRooms, appIn, appSent,
                   chatVars, diskVars, simpleVars,
                   observed>>

\* handleSetUsername
AppHandleSetUsername(username) ==
    /\ appConnected
    /\ Trim(username) # <<>>
    /\ appOut' = Append(appOut, [ev |-> "register_user",
                                 username |-> Trim(username)])
    /\ last' = [op |-> "app handleSetUsername"]
    /\ out' = <<>>
    /\ UNCHANGED <<appConnected, appCurrentRoom, appMessages, appRooms, appIn,
                   appSent, notAppVars>>

\* handleCreateRoom
AppHandleCreateRoom(newRoomName) ==
    /\ appConnected
    /\ Trim(newRoomName) # <<>>
    /\ appOut' = Append(appOut, [ev |-> "join_room",
                                 roomName |-> Trim(newRoomName)])
    /\ appCurrentRoom' = Trim(newRoomName)
    /\ last' = [op |-> "app handleCreateRoom", room |-> Trim(newRoomName)]
    /\ out' = <<>>
    /\ UNCHANGED <<appConnected, appMessages, appRooms, appIn, appSent,
                   notAppVars>>

\* handleJoinRoom(room.name), a click on a room of the list
AppHandleJoinRoom(roomName) ==
    /\ roomName \in appRooms
    /\ appOut' = Append(appOut, [ev |-> "join_room", roomName |-> roomName])
    /\ appCurrentRoom' = roomName
    /\ appMessages' = <<>>
    /\ last' = [op |-> "app handleJoinRoom", room |-> roomName]
    /\ out' = <<>>
    /\ UNCHANGED <<appConnected, appRooms, appIn, appSent, notAppVars>>

\* handleSendMessage
AppHandleSendMessage(message) ==
    /\ Trim(message) # <<>>
    /\ appCurrentRoom # <<>>
    /\ appConnected
    /\ appOut' = Append(appOut, [ev |-> "send_message", room |-> appCurrentRoom,
                                 message |-> Trim(message)])
    /\ appSent' = appSent + 1
    /\ last' = [op |-> "app handleSendMessage", room |-> appCurrentRoom]
    /\ out' = <<>>
    /\ UNCHANGED <<appConnected, appCurrentRoom, appMessages, appRooms, appIn,
                   notAppVars>>

\* handleLeaveRoom
AppHandleLeaveRoom ==
    /\ appCurrentRoom # <<>>
    /\ appOut' = Append(appOut, [ev |-> "leave_room",
                                 roomName |-> appCurrentRoom])
    /\ appCurrentRoom' = <<>>
    /\ appMessages' = <<>>
    /\ last' = [op |-> "app handleLeaveRoom", room |-> appCurrentRoom]
    /\ out' = <<>>
    /\ UNCHANGED <<appConnected, appRooms, appIn, appSent, notAppVars>>

\* the list with msg put in front of it
PrependMessage(prev, msg) == <<msg>> \o prev

\* setMessages(prev => [...prev, msg])
AppendMessage(prev, msg) == Append(prev, msg)

\* the message about a user that joined or left the room
SystemMessage(e) ==
    [id |-> <<"sys", now>>, type |-> "system", user |-> e.user, what |-> e.ev,
     timestamp |-> now]

\* newSocket.on('receive_message' | 'room_history' | 'rooms_list' |
\* 'user_joined' | 'user_left', ...) for the event that arrived first
AppReceive ==
    /\ appIn # <<>>
    /\ LET e == Head(appIn)
       IN  /\ appMessages' =
                 CASE e.ev = "receive_message" -> AppendMessage(appMessages, e.msg)
                   [] e.ev = "room_history" -> e.messages
                   [] e.ev \in {"user_joined", "user_left"} ->
                         AppendMessage(appMessages, SystemMessage(e))
                   [] OTHER -> appMessages
           /\ appRooms' = IF e.ev = "rooms_list" THEN DOMAIN e.list
                          ELSE appRooms
           /\ last' = [op |-> "app receive", ev |-> e.ev]
    /\ appIn' = Tail(appIn)
    /\ out' = <<>>
    /\ UNCHANGED <<appConnected, appCurrentRoom, appOut, appSent, notAppVars>>

\* the server handles the next event of the client's socket
AppServerReceive ==
    /\ conn[AppConn] = "open"
    /\ appOut # <<>>
    /\ LET e == Head(appOut)
       IN  CASE e.ev = "get_rooms" -> GetRooms(AppConn)
             [] e.ev = "register_user" -> RegisterUser(AppConn, e.username)
             [] e.ev = "join_room" -> JoinRoom(AppConn, e.roomName)
             [] e.ev = "send_message" ->
                   SendMessage(AppConn, e.room, e.message, 0)
             [] e.ev = "leave_room" -> LeaveRoom(AppConn, e.roomName)
    /\ appOut' = Tail(appOut)
    /\ appIn' = appIn \o AppEvents(out')
    /\ UNCHANGED <<appConnected, appCurrentRoom, appMessages, appRooms,
                   appSent, chatVars, diskVars, simpleVars,
                   observed>>

(***************************************************************************)
(* SpecApp: the user of the App client registers, creates, joins, switches *)
(* and leaves rooms and sends messages; another user on socket PeerConn    *)
(* registers, joins the room a once and sends messages into it, straight   *)
(* at the server.  A user registers while the server has no record of it.  *)
(* The k-th message the client sends has the text c k, a message of the    *)
(* other user the text p k.                                                *)
(***************************************************************************)
AppNext ==
    \/ AppOnConnect
    \/ /\ AppInFlight < MaxAppBuffer
       /\ AppConn \notin DOMAIN users
       /\ AppHandleSetUsername(MainName)
    \/ \E newRoomName \in AppRoomInputs :
          AppInFlight < MaxAppBuffer /\ AppHandleCreateRoom(newRoomName)
    \/ \E roomName \in AppRoomInputs :
          AppInFlight < MaxAppBuffer /\ AppHandleJoinRoom(roomName)
    \/ /\ AppInFlight < MaxAppBuffer
       /\ TotalAccepted < MaxAppSends
       /\ appSent < MaxAppSends
       /\ AppHandleSendMessage(<<"c">> \o DecStr(appSent + 1))
    \/ AppInFlight < MaxAppBuffer /\ AppHandleLeaveRoom
    \/ AppReceive
    \/ AppServerReceive
    \/ AppPeer(Connect(PeerConn))
    \/ PeerConn \notin DOMAIN users /\ AppPeer(RegisterUser(PeerConn, <<"m">>))
    \/ /\ AppInFlight < MaxAppBuffer
       /\ DeepRoom \in DOMAIN rooms => PeerConn \notin rooms[DeepRoom].users
       /\ AppPeer(JoinRoom(PeerConn, DeepRoom))
    \/ /\ AppInFlight < MaxAppBuffer
       /\ TotalAccepted < MaxAppSends
       /\ AppPeer(SendMessage(PeerConn, DeepRoom,
                              <<"p">> \o DecStr(TotalAccepted + 1), 0))

SpecApp == Init /\ [][AppNext]_vars

(***************************************************************************)
(* Claims about src/backend/server.js                                      *)
(***************************************************************************)

\* C2: send_message appends the accepted message at the end of the room log
\* and, when the length then exceeds 1000, keeps exactly the last 500
\* entries: with n messages accepted so far the log is the suffix of the
\* accepted sequence of length n (n <= 1000), else 500 + (n - 1001) mod 501.
C2_EvictionHysteresis ==
    \A r \in DOMAIN rooms :
        LET n == Len(accepted[r])
            len == IF n <= HardCap THEN n
                   ELSE SoftCap + ((n - (HardCap + 1)) % (HardCap + 1 - SoftCap))
        IN  /\ Len(rooms[r].messages) = len
            /\ rooms[r].messages = SubSeq(accepted[r], n - len + 1, n)

\* C2 witness: the 1001st send has just trimmed the log to its last 500
C2_Witness ==
    /\ DeepRoom \in DOMAIN rooms
    /\ last.op = "send_message"
    /\ Len(accepted[DeepRoom]) = HardCap + 1
    /\ Len(rooms[DeepRoom].messages) = SoftCap
    /\ rooms[DeepRoom].messages[1].message = DecStr(HardCap + 2 - SoftCap)

\* C5: the disconnect of a registered socket takes it out of the member set
\* of every room it is a member of, emits exactly one user_left for each of
\* these rooms, carrying the member count before the disconnect minus one,
\* emits no user_left for another room, and removes the users entry.
C5_DisconnectCleanup ==
    [][ (last'.op = "disconnect" /\ conn[last'.conn] = "open"
            /\ last'.conn \in DOMAIN users) =>
        LET c == last'.conn
            Rs == {r \in DOMAIN rooms : c \in rooms[r].users}
            Left(r) == {i \in 1..Len(out') :
                          out'[i].ev = "user_left" /\ out'[i].room = r}
        IN  /\ \A r \in DOMAIN rooms' : c \notin rooms'[r].users
            /\ \A r \in Rs :
                  /\ Cardinality(Left(r)) = 1
                  /\ \A i \in Left(r) :
                        out'[i].userCount = Cardinality(rooms[r].users) - 1
            /\ \A r \in (DOMAIN rooms) \ Rs : Left(r) = {}
            /\ c \notin DOMAIN users' ]_vars

\* C6: every id in a room's member set is the id of a socket that is
\* connected and registered.
C6_MembersAreLive ==
    \A r \in DOMAIN rooms :
        \A c \in rooms[r].users : conn[c] = "open" /\ c \in DOMAIN users

\* the order of two message ids (`${Date.now()}-${random}`)
IdLess(a, b) == a.ms < b.ms \/ (a.ms = b.ms /\ a.rnd < b.rnd)

\* C7: in every room log a message inserted later has a strictly greater
\* id than a message inserted earlier (so no id occurs twice).
C7_IdsIncrease ==
    \A r \in DOMAIN rooms :
        \A i, j \in 1..Len(rooms[r].messages) :
            i < j => IdLess(rooms[r].messages[i].id, rooms[r].messages[j].id)

\* C8: a send_message with a non-empty room and message whose preconditions
\* fail emits exactly one error, to the sender only, whose text is the
\* first failing one of NotRegistered, RoomNotFound, NotMember, and leaves
\* users, rooms and logs unchanged.
C8_SendErrorPriority ==
    [][ (last'.op = "send_message" /\ last'.room # <<>> /\ last'.message # <<>>) =>
        LET c == last'.conn
            room == last'.room
            notRegistered == c \notin DOMAIN users
            roomNotFound == room \notin DOMAIN rooms
            notMember == roomNotFound \/ c \notin rooms[room].users
            text == IF notRegistered THEN "Please register first"
                    ELSE IF roomNotFound THEN "Room does not exist"
                    ELSE "You are not in this room"
        IN  (notRegistered \/ roomNotFound \/ notMember) =>
               /\ out' = <<[ev |-> "error", to |-> {c}, message |-> text]>>
               /\ UNCHANGED <<users, rooms, accepted, sockRooms>> ]_vars

\* C8 witness: an unregistered socket has sent to a room that does not
\* exist and was told to register first
C8_Witness ==
    /\ last.op = "send_message"
    /\ last.room # <<>> /\ last.message # <<>>
    /\ last.conn \notin DOMAIN users
    /\ last.room \notin DOMAIN rooms
    /\ out = <<[ev |-> "error", to |-> {last.conn},
                message |-> "Please register first"]>>

\* C10: an accepted message is sent as receive_message to exactly the
\* member set of its room at the moment it is accepted, sender included.
C10_FanOutToMembers ==
    (last.op = "send_message" /\ out # <<>> /\ out[1].ev = "receive_message") =>
        /\ out[1].to = rooms[last.room].users
        /\ last.conn \in out[1].to

(***************************************************************************)
(* Claims about src/server.js, the password-room server                    *)
(***************************************************************************)
NoHandlerSuspended == \A c \in Conns : pwPending[c] = Idle

\* C1: whenever no handler is in the middle of its execution, every room's
\* message log holds at most 1000 entries, on either server.
C1_LogCap ==
    NoHandlerSuspended =>
        /\ \A r \in DOMAIN rooms : Len(rooms[r].messages) <= HardCap
        /\ \A r \in DOMAIN pwRooms : Len(pwRooms[r].messages) <= HardCap

\* the number of times c occurs in the member list of room r
Occurrences(rs, r, c) ==
    IF r \in DOMAIN rs
    THEN Cardinality({i \in 1..Len(rs[r].users) : rs[r].users[i] = c})
    ELSE 0

\* C3: a step that adds a connection to the member list of a room that has
\* a password hash is a join_room of that connection whose supplied
\* password matches the stored hash, and it sends room_joined; a join_room
\* that completes with a password that does not match the stored hash sends
\* join_error only and adds nothing.
C3_PasswordGate ==
    [][ /\ \A r \in DOMAIN pwRooms', c \in Conns :
             (/\ pwRooms'[r].password # Null
              /\ Occurrences(pwRooms', r, c) > Occurrences(pwRooms, r, c)) =>
                 /\ last'.op = "join_room" /\ last'.conn = c /\ last'.roomId = r
                 /\ BcryptCompare(last'.password, pwRooms'[r].password) = "match"
                 /\ \E i \in 1..Len(out') : out'[i].ev = "room_joined"
        /\ (/\ last'.op = "join_room" /\ last'.phase = "resume"
            /\ pwPending[last'.conn] # Idle
            /\ pwRooms[last'.roomId].password # Null
            /\ BcryptCompare(last'.password, pwRooms[last'.roomId].password)
                   # "match") =>
               /\ Len(out') = 1 /\ out'[1].ev = "join_error"
               /\ UNCHANGED <<pwRooms, pwUsers>>
      ]_vars

\* C4: a create_room for a room id that is present when the request is
\* handled answers create_error to the requester only, emits no new_room and
\* leaves every room (name, password hash, creator, members, log) unchanged.
C4_DuplicateRoomId ==
    [][ (/\ last'.op = "create_room" /\ last'.phase # "resume"
         /\ pwPending[last'.conn] = Idle
         /\ last'.roomId \in DOMAIN pwRooms) =>
            /\ out' = <<[ev |-> "create_error", to |-> {last'.conn},
                         message |-> "Room already exists"]>>
            /\ UNCHANGED <<pwRooms, pwUsers, pwSock, pwPending>>
      ]_vars

\* C4 witness: a create_room for the existing room general was refused
C4_Witness ==
    /\ last.op = "create_room"
    /\ last.roomId = "general"
    /\ pwRooms["general"] = DefaultRooms["general"]
    /\ Len(out) = 1 /\ out[1].ev = "create_error"

\* C9: a message or file upload from a connection that is not a member of
\* the target room leaves the room logs unchanged and sends no message
\* event to anybody.
C9_NonMemberSendIsInert ==
    [][ (/\ last'.op \in {"message", "file_upload"}
         /\ pwConn[last'.conn] = "open"
         /\ Occurrences(pwRooms, last'.roomId, last'.conn) = 0) =>
            /\ pwRooms' = pwRooms
            /\ \A i \in 1..Len(out') : out'[i].ev # "message"
      ]_vars

(***************************************************************************)
(* Claims about join_room, leave_room and register_user                    *)
(***************************************************************************)
\* the events of the sequence o named ev
EventsNamed(o, ev) == {i \in 1..Len(o) : o[i].ev = ev}

\* C11: after a successful join_room the connection is in the room's member
\* set and the room is in the user's membership; the joiner is sent a
\* history snapshot that is exactly the last min(100, n) messages of the
\* room's n-message log, in log order; every other current member of the
\* room, and not the joiner, is sent one user_joined that carries the member
\* count after the join.  Stated for join_room of src/backend/server.js
\* (room_history) and of src/server.js (room_joined).
C11_JoinPostcondition ==
    /\ (last.op = "join_room" /\ EventsNamed(out, "room_history") # {}) =>
          LET c == last.conn
              room == Trim(last.room)
              joined == EventsNamed(out, "user_joined")
          IN  /\ c \in rooms[room].users
              /\ room \in Range(users[c].rooms)
              /\ \A i \in EventsNamed(out, "room_history") :
                    /\ out[i].to = {c}
                    /\ out[i].messages =
                          SliceLast(rooms[room].messages, HistoryLimit)
              /\ \A d \in rooms[room].users \ {c} :
                    Cardinality({i \in joined : d \in out[i].to}) = 1
              /\ \A i \in joined :
                    /\ c \notin out[i].to
                    /\ out[i].userCount = Cardinality(rooms[room].users)
    /\ (last.op = "join_room" /\ EventsNamed(out, "room_joined") # {}) =>
          LET c == last.conn
              roomId == last.roomId
              joined == EventsNamed(out, "user_joined")
          IN  /\ c \in Range(pwRooms[roomId].users)
              /\ pwUsers[c].currentRoom = roomId
              /\ \A i \in EventsNamed(out, "room_joined") :
                    /\ out[i].to \subseteq {c}
                    /\ out[i].previousMessages =
                          SliceLast(pwRooms[roomId].messages, HistoryLimit)
              /\ \A d \in Connected(Range(pwRooms[roomId].users)) \ {c} :
                    Cardinality({i \in joined : d \in out[i].to}) = 1
              /\ \A i \in joined :
                    out[i].to # {} =>
                    /\ c \notin out[i].to
                    /\ "userCount" \in DOMAIN out[i]
                    /\ out[i].userCount = Len(pwRooms[roomId].users)

C13_LeaveRoom ==
    [][ (last'.op = "leave_room" /\ conn[last'.conn] = "open") =>
        LET c == last'.conn
            room == last'.room
            member == room \in DOMAIN rooms /\ c \in rooms[room].users
            sent == {i \in 1..Len(out') : out'[i].to # {}}
        IN  IF ~member
            THEN /\ sent = {}
                 /\ UNCHANGED <<rooms, users>>
            ELSE /\ c \notin rooms'[room].users
                 /\ c \in DOMAIN users' => room \notin Range(users'[c].rooms)
                 /\ Len(out') = 1
                 /\ out'[1].ev = "user_left"
                 /\ out'[1].to = rooms'[room].users
                 /\ out'[1].userCount = Cardinality(rooms[room].users) - 1
      ]_vars

\* C14: a register_user on a connection that is already registered
\* replaces the name and leaves membership untouched on both sides: every
\* room's member set is unchanged and the user's own membership still lists
\* exactly the rooms that hold the connection.
C14_ReRegisterKeepsMembership ==
    [][ (/\ last'.op = "register_user"
         /\ conn[last'.conn] = "open"
         /\ last'.conn \in DOMAIN users) =>
        LET c == last'.conn
        IN  /\ users'[c].username = SafeUsername(c, last'.username)
            /\ rooms' = rooms
            /\ Range(users'[c].rooms) = Range(users[c].rooms)
            /\ Range(users'[c].rooms) =
                  {r \in DOMAIN rooms' : c \in rooms'[r].users}
      ]_vars

(***************************************************************************)
(* Claims about the Chat client                                            *)
(***************************************************************************)

\* C15: whenever the client has emitted typing{isTyping:true} for a room
\* (also after a single keystroke) and the user then does nothing for the
\* 1000 ms of the typing timer, the timer's callback emits exactly one
\* typing{isTyping:false} for that room; and the server relays a typing
\* event of a user of an existing room as one user_typing with the same
\* flag to the other members of that room.
C15_TypingExpiry ==
    [][ /\ (last'.op = "client typing timer" /\ typingSent = "true") =>
              /\ out' = <<[ev |-> "typing", roomId |-> currentRoom,
                           isTyping |-> FALSE]>>
              /\ sendBuffer' = Append(sendBuffer, out'[1])
        /\ (/\ last'.op = "typing"
            /\ last'.conn \in DOMAIN pwUsers
            /\ last'.roomId \in DOMAIN pwRooms) =>
              out' = <<[ev |-> "user_typing",
                        to |-> Connected(Range(pwRooms[last'.roomId].users))
                                  \ {last'.conn},
                        username |-> pwUsers[last'.conn].username,
                        isTyping |-> last'.isTyping]>>
      ]_vars

\* C16: reconnection is bounded.  Once more than 5 connect_error events
\* have come in a row (no connect and no manual reconnect between them) the
\* client is in the state 'failed'; and in the state 'failed' no retry timer
\* is pending, so that no new connection attempt starts before the user
\* reconnects by hand.
C16_BoundedRetry ==
    /\ errorsInARow > MaxRetries => connectionStatus = "failed"
    /\ connectionStatus = "failed" => reconnectTimers = <<>>

\* C17: the client never emits a message for its currentRoom on a
\* connection for which the server holds no membership in that room: when
\* sendMessage emits, the client's socket is connected and its id is in the
\* member list of currentRoom (a transport already closed on the server and
\* not yet noticed by the client excepted), because after a reconnection the
\* client joins again before it treats itself as in the room.
C17_RejoinBeforeSend ==
    [][ (last'.op = "client sendMessage" /\ out' # <<>>) =>
           /\ socketRef.state = "open"
           /\ \/ pwConn[socketRef.id] = "closed"
              \/ socketRef.id \in Range(pwRooms[currentRoom].users)
      ]_vars

(***************************************************************************)
(* Claims about persistence and room creation                              *)
(***************************************************************************)

\* C18: saveData writes for every room the last min(100, n) messages of its
\* n-message log; and when the process is restarted after a saveData that
\* has finished, loadData leaves every default room with the message list
\* persisted for it as its log, and every persisted room present with its
\* saved name, password hash and creator and an empty member list.
C18_PersistenceRoundTrip ==
    [][ /\ (last'.op = "saveData" /\ last'.phase = "messages") =>
              \A roomId \in DOMAIN pwRooms :
                 /\ roomId \in DOMAIN messagesFile'
                 /\ messagesFile'[roomId] =
                       JsonMessages(SliceLast(pwRooms[roomId].messages,
                                              SaveLimit))
        /\ (last'.op = "loadData" /\ last'.whole) =>
              /\ \A roomId \in DOMAIN DefaultRooms :
                    pwRooms'[roomId].messages =
                       IF roomId \in DOMAIN messagesFile
                       THEN messagesFile[roomId] ELSE <<>>
              /\ \A roomId \in DOMAIN roomsFile :
                    /\ roomId \in DOMAIN pwRooms'
                    /\ pwRooms'[roomId].name = roomsFile[roomId].name
                    /\ pwRooms'[roomId].password = roomsFile[roomId].password
                    /\ pwRooms'[roomId].creator = roomsFile[roomId].creator
                    /\ pwRooms'[roomId].users = <<>>
      ]_vars

\* the hasPassword flags of the events of o agree with the rooms rs
FlagsAgree(o, rs) ==
    \A i \in 1..Len(o) :
        (o[i].ev \in {"new_room", "room_update"} /\ o[i].to # {}
            /\ "hasPassword" \in DOMAIN o[i]) =>
           LET roomId == IF o[i].ev = "new_room" THEN o[i].id ELSE o[i].roomId
           IN  o[i].hasPassword = (rs[roomId].password # Null)

C20_EmptyMessageDropped ==
    [][ (/\ last'.op = "send_message"
         /\ SendPrecondition(last'.conn, last'.room) = "ok"
         /\ Trim(last'.message) = <<>>) =>
           /\ out' = <<>>
           /\ rooms' = rooms
           /\ accepted' = accepted
      ]_vars

\* C22: a join_room from a connection that has no user record fails with
\* an error sent to that connection only, creates no room and adds the
\* connection id to no room's member set; both for the multi-room server and
\* for the simple server.
C22_UnregisteredJoinFails ==
    [][ /\ (/\ last'.op = "join_room"
            /\ "server" \notin DOMAIN last'
            /\ last'.conn \notin DOMAIN users) =>
              /\ Len(out') = 1
              /\ out'[1].ev = "error"
              /\ out'[1].to = {last'.conn}
              /\ rooms' = rooms
        /\ (/\ last'.op = "join_room"
            /\ "server" \in DOMAIN last'
            /\ last'.conn \notin DOMAIN simpleUsers) =>
              /\ Len(out') = 1
              /\ out'[1].ev = "error"
              /\ out'[1].to = {last'.conn}
              /\ simpleRooms' = simpleRooms
      ]_vars

\* C23: register_user stores as display name the proposed name with its
\* surrounding whitespace removed and, whenever that would be empty (an
\* absent, empty or whitespace-only proposal), the generated name derived
\* from the connection id; the stored display name is never the empty string.
C23_RegisteredNameNotEmpty ==
    [][ last'.op = "register_user" =>
           LET c == last'.conn
               proposed == last'.username
               trimmed == IF proposed = Undefined THEN <<>> ELSE Trim(proposed)
           IN  /\ c \in DOMAIN users'
               /\ users'[c].username =
                     (IF trimmed = <<>> THEN GenName(c) ELSE trimmed)
               /\ users'[c].username # <<>>
      ]_vars

\* C24: create_room's check-then-insert is safe under every interleaving of
\* handlers, also of create_room handlers suspended while they hash a
\* password: a create_room step inserts a room record and emits new_room only
\* for an id that has no record, and no create_room step replaces a record
\* that is there, so that members and messages added since the first insert
\* are never lost.
C24_CreateInsertsOnce ==
    [][ last'.op = "create_room" =>
           /\ EventsNamed(out', "new_room") # {} =>
                 last'.roomId \notin DOMAIN pwRooms
           /\ \A r \in DOMAIN pwRooms :
                 r \in DOMAIN pwRooms' /\ pwRooms'[r] = pwRooms[r]
      ]_vars

\* C26: for every interleaving of a connection's join_room handler, which
\* suspends at the password comparison, with that connection's disconnect
\* handler: once both have finished, the connection id is in no room's
\* member list and has no entry in users.
C26_JoinDisconnectRace ==
    \A c \in Conns :
        (pwConn[c] = "closed" /\ pwPending[c] = Idle) =>
           /\ c \notin DOMAIN pwUsers
           /\ \A r \in DOMAIN pwRooms : c \notin Range(pwRooms[r].users)

\* C27: single-room invariant of the password-room server.  In every state
\* between two handler steps each connection id occurs at most once across
\* all member lists, and an id is in rooms[r].users exactly when users[id]
\* exists with currentRoom equal to r.
C27_SingleRoom ==
    \A c \in Conns :
        /\ \A r \in DOMAIN pwRooms : Occurrences(pwRooms, r, c) <= 1
        /\ \A r1, r2 \in DOMAIN pwRooms :
              (c \in Range(pwRooms[r1].users) /\ c \in Range(pwRooms[r2].users))
                 => r1 = r2
        /\ \A r \in DOMAIN pwRooms :
              c \in Range(pwRooms[r].users) <=>
                 (c \in DOMAIN pwUsers /\ pwUsers[c].currentRoom = r)

\* C28: create/join password round trip.  For every non-empty password
\* string p, also one with leading or trailing whitespace, a join_room that
\* supplies exactly p to the room a create_room has just inserted with
\* password p is accepted: its password comparison resolves to a match or,
\* where the room got no hash, the join completes at once.
C28_PasswordRoundTrip ==
    [][ (/\ last.op = "create_room"
         /\ EventsNamed(out, "new_room") # {}
         /\ last.password # Undefined /\ last.password # <<>>
         /\ last'.op = "join_room"
         /\ last'.phase # "resume"
         /\ last'.roomId = last.roomId
         /\ last'.password = last.password) =>
           IF last'.phase = "await"
           THEN PasswordMatch(pwPending'[last'.conn].result)
           ELSE EventsNamed(out', "room_joined") # {}
      ]_vars

\* C25: in the Chat client a pending retry timer is cancelled by a
\* successful connection and by a manual reconnect: while the socket is
\* connected, and right after manualReconnect has started a new connecting
\* phase, no retry timer is pending, and no retry timer fires and tears
\* down a connected socket.
C25_RetryTimerCancelled ==
    /\ socketRef.state = "open" => reconnectTimers = <<>>
    /\ last.op = "client manualReconnect" => reconnectTimers = <<>>

(***************************************************************************)
(* Claims about src/unnamed/part_004, the App client                       *)
(***************************************************************************)
\* an entry of the client's list that is a chat message
IsChat(m) == "room" \in DOMAIN m

\* the place of message m in the sequence seq
Pos(seq, m) == CHOOSE i \in 1..Len(seq) : seq[i] = m

\* the chat messages of room r occur in list in the order they were
\* accepted in
InAcceptedOrder(list, r) ==
    \A i, j \in 1..Len(list) :
        (i < j /\ IsChat(list[i]) /\ IsChat(list[j])
            /\ list[i].room = r /\ list[j].room = r) =>
           /\ \E k \in 1..Len(accepted[r]) : accepted[r][k] = list[i]
           /\ \E k \in 1..Len(accepted[r]) : accepted[r][k] = list[j]
           /\ Pos(accepted[r], list[i]) < Pos(accepted[r], list[j])

\* the messages of the receive_message events among events
LiveMessages(events) ==
    LET live == SelectSeq(events, LAMBDA e : e.ev = "receive_message")
    IN  [i \in 1..Len(live) |-> live[i].msg]

C30_ListShowsCurrentRoom ==
    (appOut = <<>> /\ appIn = <<>> /\ appCurrentRoom # <<>>) =>
        \A i \in 1..Len(appMessages) :
            IsChat(appMessages[i]) => appMessages[i].room = appCurrentRoom

(***************************************************************************)
(* Claims about the history snapshot of src/backend/server.js              *)
(***************************************************************************)
\* C29: no gap and no duplicate between history and live delivery.  While
\* a connection that joined a room stays a member of it, the snapshot of
\* its join holds the messages accepted before the join handler ran that
\* were among the last 100 entries of the log, every message accepted
\* afterwards was delivered to it as exactly one live event, in order, and
\* no message is both in the snapshot and among the live events.
C29_HistoryThenLive ==
    (/\ observed.joined
     /\ conn[PeerConn] = "open"
     /\ DeepRoom \in DOMAIN rooms
     /\ PeerConn \in rooms[DeepRoom].users) =>
        LET all == accepted[DeepRoom]
            n == observed.joinedAt
        IN  /\ observed.snapshot =
                  SubSeq(all, IF n > HistoryLimit THEN n - HistoryLimit + 1
                              ELSE 1, n)
            /\ observed.live = SubSeq(all, n + 1, Len(all))
            /\ \A i \in 1..Len(observed.snapshot), j \in 1..Len(observed.live) :
                  observed.snapshot[i] # observed.live[j]

\* C29 witness: the connection joined when more than 100 messages had been
\* accepted, got the last 100 of them as its snapshot and the next one as a
\* live event
C29_Witness ==
    /\ observed.joined
    /\ PeerConn \in rooms[DeepRoom].users
    /\ observed.joinedAt = HistoryLimit + 1
    /\ Len(observed.snapshot) = HistoryLimit
    /\ Len(observed.live) = 1

====
